---- MODULE Spec2Model ----
(***************************************************************************)
(* Model of the recognition front end (src/app.py): the content cache,     *)
(* the statistics tracker, the batch processor and the history store.      *)
(*                                                                         *)
(* Files on disk are modelled by their content: absent, a truncated       *)
(* (unparseable) JSON text, or a complete JSON text.  A write               *)
(* `with open(f, 'w') as f: json.dump(v, f)` has three outcomes: it         *)
(* completes, open() raises and the file is untouched, or the file is      *)
(* truncated by open() and the write raises before the text is complete.   *)
(***************************************************************************)
EXTENDS Integers, Sequences, FiniteSets, TLC

VARIABLES
    cache,        \* cache/<md5>.json : key -> file content
    stats,        \* st.session_state.stats
    statsFile,    \* stats.json
    now,          \* the clock read by datetime.now()
    pc,           \* position of the script: "idle" | "batch" | "done" | "raised"
    images,       \* the batch being processed: sequence of <<name, bytes>>
    settings,     \* the settings dict of the batch
    results,      \* the results list of process_batch_images
    log,          \* per item of the batch: what process_single_image did
    calls,        \* number of calls made so far (what each specification bounds)
    history,      \* st.session_state.history
    historyFile,  \* history/history.json
    imageFiles,   \* history/<md5>.jpg : path -> file content
    last,         \* the last cache / stats / history operation and its outcome
    sessions      \* per browser session: its st.session_state and its position

vars == <<cache, stats, statsFile, now, pc, images, settings, results, log,
          calls, history, historyFile, imageFiles, last, sessions>>

----------------------------------------------------------------------------
(* Bounds of the model *)

MaxBatch == 2      \* longest batch
MaxCalls == 2      \* process_single_image calls over all batches
MaxOps == 4        \* update_stats calls of the stats driver; history operations

----------------------------------------------------------------------------
(* Byte strings.  "a" is an image that optimize_image re-encodes to a      *)
(* smaller JPEG, "b" is not an image (Image.open raises), "c" is an image  *)
(* within the upload limit whose re-encoding exceeds it.                    *)

Uploads == {"a", "b", "c"}
AllBytes == Uploads \cup {"a_jpg", "c_jpg"}

MB == 1024 * 1024

len(data) ==
    CASE data = "a" -> 3 * MB
      [] data = "b" -> 2 * MB
      [] data = "c" -> 9 * MB
      [] data = "a_jpg" -> 1 * MB
      [] data = "c_jpg" -> 11 * MB

MAX_FILE_SIZE == 10 * 1024 * 1024

\* hashlib.md5(data).hexdigest(): one digest per content.
md5(data) == <<"md5", data>>

get_cache_key(image_data) == md5(image_data)

CacheKeys == {get_cache_key(b) : b \in AllBytes}

check_file_size(file_data) == len(file_data) <= MAX_FILE_SIZE

\* Image.open / thumbnail / save as JPEG; on any exception the input is returned.
optimize_image(image_data) ==
    CASE image_data = "a" -> "a_jpg"
      [] image_data = "c" -> "c_jpg"
      [] OTHER -> image_data

----------------------------------------------------------------------------
(* Values and files *)

None == [none |-> TRUE]

\* What the recognition endpoint answers with status 200 (server.py 143-148).
Results == {[text |-> "t1", processing_time |-> "0.10"],
            [text |-> "t2", processing_time |-> "0.20"]}

ErrorRecord(msg) == [error |-> msg]
IsError(r) == "error" \in DOMAIN r
IsResult(r) == "text" \in DOMAIN r

Absent == [state |-> "absent"]
Truncated == [state |-> "truncated"]
json_dump(v) == [state |-> "complete", json |-> v]
exists(file) == file.state # "absent"
Parses(file) == file.state = "complete"
json_load(file) == file.json

Faults == {"ok", "open_fails", "write_fails"}

\* with open(file, 'w') as f: json.dump(v, f)
WriteJson(file, v, fault) ==
    CASE fault = "ok" -> [file |-> json_dump(v), raised |-> FALSE]
      [] fault = "open_fails" -> [file |-> file, raised |-> TRUE]
      [] fault = "write_fails" -> [file |-> Truncated, raised |-> TRUE]

----------------------------------------------------------------------------
(* ContentCache: save_to_cache / get_from_cache *)

\* Variant: an existing entry is kept (the file is opened for exclusive
\* creation).
save_to_cache_keep_first(c, image_data, result, fault) ==
    LET cache_key == get_cache_key(image_data)
        w == WriteJson(c[cache_key], result, fault)
    IN  IF exists(c[cache_key])
        THEN [cache |-> c, raised |-> FALSE]
        ELSE [cache |-> [c EXCEPT ![cache_key] = w.file], raised |-> w.raised]

\* Variant: the entry is keyed by the bytes sent to the endpoint.
save_to_cache_optimized(c, image_data, result, fault) ==
    LET cache_key == get_cache_key(optimize_image(image_data))
        w == WriteJson(c[cache_key], result, fault)
    IN  [cache |-> [c EXCEPT ![cache_key] = w.file], raised |-> w.raised]

\* Writes result to cache/<md5 of image_data>.json.
save_to_cache(c, image_data, result, fault) ==
    LET cache_key == get_cache_key(image_data)
        w == WriteJson(c[cache_key], result, fault)
    IN  [cache |-> [c EXCEPT ![cache_key] = w.file], raised |-> w.raised]

\* Variant: the lookup never finds the file.
get_from_cache_never(c, image_data) == [value |-> None, raised |-> FALSE]

\* Returns the parsed entry, None when there is no file; json.load raises on
\* a file that does not hold a complete JSON text.
get_from_cache(c, image_data) ==
    LET cache_file == c[get_cache_key(image_data)]
    IN  IF exists(cache_file)
        THEN IF Parses(cache_file)
             THEN [value |-> json_load(cache_file), raised |-> FALSE]
             ELSE [value |-> None, raised |-> TRUE]
        ELSE [value |-> None, raised |-> FALSE]

\* Python truth value of what get_from_cache returned (`if cached_result:`).
Truthy(v) == v # None

NumEntries(c) == Cardinality({k \in CacheKeys : exists(c[k])})

----------------------------------------------------------------------------
(* StatsTracker: update_stats / load_stats *)

ZeroStats == [total_processed |-> 0, total_success |-> 0, total_failed |-> 0,
              total_size |-> 0, last_processed |-> 0]

\* Variant: a failure is counted in total_failed only.
update_stats_failed_uncounted(s, f, t, success, file_size, fault) ==
    LET s2 == IF success THEN [s EXCEPT !.total_processed = @ + 1,
                                        !.total_success = @ + 1]
                         ELSE [s EXCEPT !.total_failed = @ + 1]
        s4 == [s2 EXCEPT !.total_size = @ + file_size, !.last_processed = t]
        w == WriteJson(f, s4, fault)
    IN  [stats |-> s4, statsFile |-> w.file, raised |-> w.raised]

\* The counters are changed in memory first; then stats.json is rewritten.
update_stats(s, f, t, success, file_size, fault) ==
    LET s1 == [s EXCEPT !.total_processed = @ + 1]
        s2 == IF success THEN [s1 EXCEPT !.total_success = @ + 1]
                         ELSE [s1 EXCEPT !.total_failed = @ + 1]
        s3 == [s2 EXCEPT !.total_size = @ + file_size]
        s4 == [s3 EXCEPT !.last_processed = t]
        w == WriteJson(f, s4, fault)
    IN  [stats |-> s4, statsFile |-> w.file, raised |-> w.raised]

\* The in-memory stats are replaced when stats.json exists and parses.
load_stats(s, f) ==
    IF exists(f) /\ Parses(f) THEN json_load(f) ELSE s

----------------------------------------------------------------------------
(* process_single_image *)

Statuses == {"200", "500", "down"}

\* What the environment does during one call: the endpoint's answer and the
\* outcome of each file write the call may make.
\* statsWrite is the write of the update_stats call in the try body,
\* statsWrite2 the write of the one in the except clause.  A choice the call
\* never reads is fixed, so that each behaviour of the call is drawn once.
DefaultResult == CHOOSE r \in Results : r.text = "t1"
Envs ==
    {e \in [status : Statuses, result : Results, cacheWrite : Faults,
            statsWrite : Faults, statsWrite2 : Faults] :
        /\ e.status # "200" => e.result = DefaultResult /\ e.cacheWrite = "ok"
        /\ (e.status = "down" \/ e.cacheWrite # "ok") => e.statsWrite = "ok"
        /\ (e.status # "down" /\ e.cacheWrite = "ok" /\ e.statsWrite = "ok")
              => e.statsWrite2 = "ok"}

\* Variant: the error record is written to the cache as well.
ExceptClause_caches_error(c, s, f, t, image_data, msg, sent, fault) ==
    LET u == update_stats(s, f, t, FALSE, len(image_data), fault)
    IN  [cache |-> save_to_cache(c, image_data, ErrorRecord(msg), "ok").cache,
         stats |-> u.stats, statsFile |-> u.statsFile, now |-> t + 1,
         ret |-> IF u.raised THEN None ELSE ErrorRecord(msg),
         raised |-> IF u.raised THEN "stats_write" ELSE "",
         sent |-> sent, path |-> "except"]

\* The except clause (166-168): count a failure, return an error record.
\* An exception raised by update_stats here leaves the function.
ExceptClause(c, s, f, t, image_data, msg, sent, fault) ==
    LET u == update_stats(s, f, t, FALSE, len(image_data), fault)
    IN  [cache |-> c, stats |-> u.stats, statsFile |-> u.statsFile, now |-> t + 1,
         ret |-> IF u.raised THEN None ELSE ErrorRecord(msg),
         raised |-> IF u.raised THEN "stats_write" ELSE "",
         sent |-> sent, path |-> "except"]

NotSent == "nothing"

\* Variant: a cache hit is counted as a processed item.
CacheHit_counted(c, s, f, t, image_data, cached_result) ==
    LET u == update_stats(s, f, t, TRUE, len(image_data), "ok")
    IN  [cache |-> c, stats |-> u.stats, statsFile |-> u.statsFile, now |-> t + 1,
         ret |-> cached_result, raised |-> "", sent |-> NotSent, path |-> "hit"]

\* `if cached_result: return cached_result` (144-145).
CacheHit(c, s, f, t, image_data, cached_result) ==
    [cache |-> c, stats |-> s, statsFile |-> f, now |-> t,
     ret |-> cached_result, raised |-> "", sent |-> NotSent, path |-> "hit"]

\* `if not check_file_size(optimized_image): return {'error': ...}` (151-152).
TooLarge(c, s, f, t, image_data) ==
    [cache |-> c, stats |-> s, statsFile |-> f, now |-> t,
     ret |-> ErrorRecord("too_large"), raised |-> "", sent |-> NotSent,
     path |-> "too_large"]

\* The settings dict is passed on to the endpoint as form data and is not read
\* here.  The result's `sent` is the payload posted to the endpoint, `path`
\* the branch taken and `raised` the exception that leaves the function.
process_single_image(image_data, sett, env, c, s, f, t) ==
    LET cached == get_from_cache(c, image_data)
        optimized_image == optimize_image(image_data)
    IN
    IF cached.raised
    THEN ExceptClause(c, s, f, t, image_data, "cache_read", NotSent, env.statsWrite2)
    ELSE IF Truthy(cached.value)
    THEN CacheHit(c, s, f, t, image_data, cached.value)
    ELSE IF ~check_file_size(optimized_image)
    THEN TooLarge(c, s, f, t, image_data)
    ELSE IF env.status = "down"
    THEN ExceptClause(c, s, f, t, image_data, "connection", optimized_image,
                      env.statsWrite2)
    ELSE IF env.status = "200"
    THEN LET sv == save_to_cache(c, image_data, env.result, env.cacheWrite)
             u == update_stats(s, f, t, TRUE, len(image_data), env.statsWrite)
         IN  IF sv.raised
             THEN ExceptClause(sv.cache, s, f, t, image_data, "cache_write",
                               optimized_image, env.statsWrite2)
             ELSE IF u.raised
             THEN ExceptClause(sv.cache, u.stats, u.statsFile, t + 1, image_data,
                               "stats_write", optimized_image, env.statsWrite2)
             ELSE [cache |-> sv.cache, stats |-> u.stats, statsFile |-> u.statsFile,
                   now |-> t + 1, ret |-> env.result, raised |-> "",
                   sent |-> optimized_image, path |-> "success"]
    ELSE LET u == update_stats(s, f, t, FALSE, len(image_data), env.statsWrite)
         IN  IF u.raised
             THEN ExceptClause(c, u.stats, u.statsFile, t + 1, image_data,
                               "stats_write", optimized_image, env.statsWrite2)
             ELSE [cache |-> c, stats |-> u.stats, statsFile |-> u.statsFile,
                   now |-> t + 1, ret |-> ErrorRecord("server"), raised |-> "",
                   sent |-> optimized_image, path |-> "server_error"]

----------------------------------------------------------------------------
(* HistoryStore: save_to_history / delete_history_item / clear_history /    *)
(* load_history                                                             *)

\* HISTORY_DIR / f"{image_hash}.jpg"
image_path(image_data) == <<"history", md5(image_data), "jpg">>

ImagePaths == {image_path(b) : b \in Uploads}

\* with open(image_path, 'wb') as f: f.write(image_data)
WriteBytes(file, data, fault) ==
    CASE fault = "ok" -> [file |-> [state |-> "complete", bytes |-> data],
                          raised |-> FALSE]
      [] fault = "open_fails" -> [file |-> file, raised |-> TRUE]
      [] fault = "write_fails" -> [file |-> Truncated, raised |-> TRUE]

RemoveAt(seq, k) == [j \in 1..(Len(seq) - 1) |-> IF j < k THEN seq[j] ELSE seq[j + 1]]

\* Variant: history.json is rewritten before the item is appended.
save_to_history_stale(h, hf, imgs, t, image_data, text, language, processing_time, imageFault, historyFault) ==
    LET path == image_path(image_data)
        wi == WriteBytes(imgs[path], image_data, imageFault)
        history_item == [timestamp |-> t, text |-> text, language |-> language,
                         processing_time |-> processing_time, image_path |-> path]
        wh == WriteJson(hf, h, historyFault)
    IN  IF wi.raised
        THEN [history |-> h, historyFile |-> hf,
              imageFiles |-> [imgs EXCEPT ![path] = wi.file], raised |-> TRUE]
        ELSE [history |-> Append(h, history_item), historyFile |-> wh.file,
              imageFiles |-> [imgs EXCEPT ![path] = wi.file], raised |-> wh.raised]

\* The image file is written first, then the item is appended in memory, then
\* history.json is rewritten; any exception is caught and reported (192-193).
save_to_history(h, hf, imgs, t, image_data, text, language, processing_time, imageFault, historyFault) ==
    LET path == image_path(image_data)
        wi == WriteBytes(imgs[path], image_data, imageFault)
        history_item == [timestamp |-> t, text |-> text, language |-> language,
                         processing_time |-> processing_time, image_path |-> path]
        h1 == Append(h, history_item)
        wh == WriteJson(hf, h1, historyFault)
    IN  IF wi.raised
        THEN [history |-> h, historyFile |-> hf,
              imageFiles |-> [imgs EXCEPT ![path] = wi.file], raised |-> TRUE]
        ELSE [history |-> h1, historyFile |-> wh.file,
              imageFiles |-> [imgs EXCEPT ![path] = wi.file], raised |-> wh.raised]

\* Variant: the index is translated one position off.
original_index_off_by_one(n, index) == n - index

\* Variant: the displayed index is used as the storage index.
original_index_forward(n, index) == index

\* Index in the stored (oldest first) list of the item displayed at `index`
\* of the reversed list (198).
original_index(n, index) == n - index - 1

UnlinkFaults == {"ok", "unlink_fails"}

\* The image file is removed when it exists, the item is popped, history.json
\* is rewritten; any exception is caught and reported (214-215).
delete_history_item(h, hf, imgs, index, unlinkFault, historyFault) ==
    LET oi == original_index(Len(h), index)
    IN  IF 0 <= oi /\ oi < Len(h)
        THEN LET item == h[oi + 1]
                 there == exists(imgs[item.image_path])
                 h1 == RemoveAt(h, oi + 1)
                 wh == WriteJson(hf, h1, historyFault)
             IN  IF there /\ unlinkFault = "unlink_fails"
                 THEN [history |-> h, historyFile |-> hf, imageFiles |-> imgs,
                       raised |-> TRUE]
                 ELSE [history |-> h1, historyFile |-> wh.file,
                       imageFiles |-> [imgs EXCEPT ![item.image_path] = Absent],
                       raised |-> wh.raised]
        ELSE [history |-> h, historyFile |-> hf, imageFiles |-> imgs,
              raised |-> FALSE]

RECURSIVE UnlinkAll(_, _, _, _)
\* The loop of clear_history (220-223) from item k on; unlink raises at the
\* failAt-th item whose file exists (0: never).
UnlinkAll(h, imgs, k, failAt) ==
    IF k > Len(h)
    THEN [imageFiles |-> imgs, raised |-> FALSE]
    ELSE IF exists(imgs[h[k].image_path])
         THEN IF failAt = 1
              THEN [imageFiles |-> imgs, raised |-> TRUE]
              ELSE UnlinkAll(h, [imgs EXCEPT ![h[k].image_path] = Absent], k + 1,
                             IF failAt = 0 THEN 0 ELSE failAt - 1)
         ELSE UnlinkAll(h, imgs, k + 1, failAt)

\* Variant: history.json is left in place.
clear_history_keeps_log(h, hf, imgs, failAt, unlinkFault) ==
    LET u == UnlinkAll(h, imgs, 1, failAt)
    IN  IF u.raised
        THEN [history |-> h, historyFile |-> hf, imageFiles |-> u.imageFiles,
              raised |-> TRUE]
        ELSE [history |-> <<>>, historyFile |-> hf, imageFiles |-> u.imageFiles,
              raised |-> FALSE]

\* Every image file is removed, the list is emptied, history.json is removed;
\* any exception is caught and reported (232-233).
clear_history(h, hf, imgs, failAt, unlinkFault) ==
    LET u == UnlinkAll(h, imgs, 1, failAt)
    IN  IF u.raised
        THEN [history |-> h, historyFile |-> hf, imageFiles |-> u.imageFiles,
              raised |-> TRUE]
        ELSE IF exists(hf) /\ unlinkFault = "unlink_fails"
        THEN [history |-> <<>>, historyFile |-> hf, imageFiles |-> u.imageFiles,
              raised |-> TRUE]
        ELSE [history |-> <<>>, historyFile |-> Absent, imageFiles |-> u.imageFiles,
              raised |-> FALSE]

\* history.json replaces the list when it exists; when it does not parse the
\* list is emptied (254-256).
load_history(h, hf) ==
    IF exists(hf)
    THEN IF Parses(hf) THEN json_load(hf) ELSE <<>>
    ELSE h

----------------------------------------------------------------------------
(* process_batch_images *)

SettingsSet == [optimize : BOOLEAN, use_cache : BOOLEAN]

\* Sequences of 1..n uploads, each paired with its file name (its position).
Batches(n) ==
    UNION {[1..k -> Uploads] : k \in 1..n}

Named(datas) == [k \in DOMAIN datas |-> <<k, datas[k]>>]

\* Variant: results are appended in completion order into the first free slot
\* from the end.
BatchIteration_shifted(res, i, r) ==
    [results |-> [res EXCEPT ![Len(res) - i + 1] =
                      IF r.raised # "" THEN ErrorRecord(r.raised) ELSE r.ret],
     raised |-> FALSE]

\* Variant: no except clause around the call.
BatchIteration_no_except(res, i, r) ==
    IF r.raised # ""
    THEN [results |-> res, raised |-> TRUE]
    ELSE [results |-> [res EXCEPT ![i] = r.ret], raised |-> FALSE]

\* One iteration of the loop (126-135): the call, then the slot assignment in
\* the try body or in the except clause.
BatchIteration(res, i, r) ==
    [results |-> [res EXCEPT ![i] = IF r.raised # "" THEN ErrorRecord(r.raised)
                                                      ELSE r.ret],
     raised |-> FALSE]

LogEntry(image_data, env, r) ==
    [image_data |-> image_data, ret |-> r.ret, raised |-> r.raised,
     sent |-> r.sent, path |-> r.path,
     status |-> IF r.sent = NotSent THEN "none" ELSE env.status]

NoLast == [op |-> "none"]

\* Two browser sessions of the one Streamlit process: each has its own
\* st.session_state (40-59); the files are shared.
Sessions == {1, 2}
NewSession == [stats |-> ZeroStats, history |-> <<>>, pc |-> "idle"]

\* The script runs from the top (load_stats, 269), the button is pressed and
\* process_batch_images starts: results = [None] * total.
StartBatch ==
    /\ pc \in {"idle", "done"}
    /\ \E datas \in Batches(MaxBatch), sett \in SettingsSet :
          /\ calls + Len(datas) <= MaxCalls
          /\ images' = Named(datas)
          /\ settings' = sett
          /\ results' = [k \in DOMAIN datas |-> None]
    /\ stats' = load_stats(stats, statsFile)
    /\ log' = <<>>
    /\ pc' = "batch"
    /\ UNCHANGED <<sessions, cache, statsFile, now, calls, history, historyFile,
                   imageFiles, last>>

ProcessItem ==
    /\ pc = "batch"
    /\ Len(log) < Len(images)
    /\ \E env \in Envs :
          LET i == Len(log) + 1
              image_data == images[i][2]
              r == process_single_image(image_data, settings, env, cache, stats,
                                        statsFile, now)
              b == BatchIteration(results, i, r)
          IN  /\ cache' = r.cache
              /\ stats' = r.stats
              /\ statsFile' = r.statsFile
              /\ now' = r.now
              /\ results' = b.results
              /\ pc' = IF b.raised THEN "raised" ELSE "batch"
              /\ log' = Append(log, LogEntry(image_data, env, r))
    /\ calls' = calls + 1
    /\ UNCHANGED <<sessions, images, settings, history, historyFile, imageFiles, last>>

\* progress_bar.empty(); return results
ReturnBatch ==
    /\ pc = "batch"
    /\ Len(log) = Len(images)
    /\ pc' = "done"
    /\ UNCHANGED <<sessions, cache, stats, statsFile, now, images, settings, results, log,
                   calls, history, historyFile, imageFiles, last>>

Init ==
    /\ cache = [k \in CacheKeys |-> Absent]
    /\ stats = ZeroStats
    /\ statsFile = Absent
    /\ now = 1
    /\ pc = "idle"
    /\ images = <<>>
    /\ settings = [optimize |-> TRUE, use_cache |-> TRUE]
    /\ results = <<>>
    /\ log = <<>>
    /\ calls = 0
    /\ history = <<>>
    /\ historyFile = Absent
    /\ imageFiles = [p \in ImagePaths |-> Absent]
    /\ last = NoLast
    /\ sessions = [s \in Sessions |-> NewSession]

Next == StartBatch \/ ProcessItem \/ ReturnBatch

Spec == Init /\ [][Next]_vars

----------------------------------------------------------------------------
(* Claims about the batch processor and the cache *)

Slot(e) == IF e.raised # "" THEN ErrorRecord(e.raised) ELSE e.ret

\* C1: process_batch_images returns a list of exactly len(images) entries in
\* which entry i is what process_single_image produced for images[i] (a
\* result or an error record); slots of items not yet processed are unset and
\* no slot is unset when the function returns.
C1_BatchOrder ==
    pc \in {"batch", "done"} =>
        /\ Len(results) = Len(images)
        /\ Len(log) <= Len(images)
        /\ pc = "done" => Len(log) = Len(images)
        /\ \A i \in 1..Len(images) :
              IF i <= Len(log)
              THEN /\ log[i].image_data = images[i][2]
                   /\ results[i] = Slot(log[i])
                   /\ IsError(results[i]) \/ IsResult(results[i])
                   /\ IsResult(results[i]) =>
                        cache[get_cache_key(images[i][2])] = json_dump(results[i])
              ELSE results[i] = None

C1_Witness ==
    /\ pc = "done"
    /\ Len(images) = 2
    /\ images[1][2] # images[2][2]
    /\ log[1].raised # ""
    /\ log[2].path = "success"

\* An item failed: the endpoint did not answer 200, the payload was too large,
\* or an exception was raised (network, cache file, stats file).
Failed(e) ==
    \/ e.status \in {"500", "down"}
    \/ e.path \in {"too_large", "except"}
    \/ e.raised # ""

\* C2: whatever fails while item k is processed (status other than 200,
\* network exception, oversized payload, a cache or stats write that raises),
\* no exception leaves process_batch_images, slot k holds an error record, the
\* loop goes on with the next item and every slot is filled on return.
C2_FailureIsolation ==
    /\ pc # "raised"
    /\ \A k \in 1..Len(log) : Failed(log[k]) => IsError(results[k])
    /\ (pc = "batch" /\ Len(log) < Len(images)) => ENABLED ProcessItem
    /\ pc = "done" =>
          /\ Len(log) = Len(images)
          /\ \A k \in 1..Len(results) : results[k] # None

C2_Witness ==
    /\ pc = "done"
    /\ Len(images) = 2
    /\ log[1].raised # ""
    /\ IsError(results[1])
    /\ IsResult(results[2])
    /\ log[2].path = "success"

\* The batch under way is the first one: it started from the empty cache.
StartedEmpty == calls = Len(log)

FirstOf(i) == \A k \in 1..(i - 1) : images[k][2] # images[i][2]

RemoteCalls(data) ==
    Cardinality({k \in 1..Len(log) :
                    log[k].image_data = data /\ log[k].sent # NotSent})

\* C3: in a batch that started from an empty cache, when the first item with
\* some bytes was recognized successfully (the call returned the endpoint's
\* result), the endpoint was called exactly once for those bytes and every
\* later item with the same bytes holds the same result.
C3_DuplicateInBatch ==
    \A i \in 1..Len(log) : \A j \in 1..Len(log) :
        (/\ StartedEmpty
         /\ i < j
         /\ FirstOf(i)
         /\ images[i][2] = images[j][2]
         /\ log[i].status = "200"
         /\ IsResult(results[i]))
        => /\ RemoteCalls(images[i][2]) = 1
           /\ results[j] = results[i]

C3_Witness ==
    /\ pc = "done"
    /\ StartedEmpty
    /\ Len(images) = 2
    /\ images[1][2] = images[2][2]
    /\ log[1].status = "200"
    /\ IsResult(results[1])
    /\ results[2] = results[1]
    /\ RemoteCalls(images[1][2]) = 1

\* The step is a call of process_single_image on bytes d.
CallOn(d) ==
    /\ pc = "batch"
    /\ calls' = calls + 1
    /\ Len(log) < Len(images)
    /\ images[Len(log) + 1][2] = d

Entry == log'[Len(log')]

\* C4: a call that finds a cache entry for the item's bytes returns that
\* entry, sends nothing to the endpoint, and leaves the stats (all five
\* fields), stats.json and every cache file as they were.
C4_CacheHitFrame ==
    [][\A d \in Uploads :
          (/\ CallOn(d)
           /\ ~get_from_cache(cache, d).raised
           /\ Truthy(get_from_cache(cache, d).value))
          => /\ Entry.ret = get_from_cache(cache, d).value
             /\ Entry.raised = ""
             /\ Entry.sent = NotSent
             /\ stats' = stats
             /\ statsFile' = statsFile
             /\ cache' = cache]_vars

C4_Witness ==
    /\ Len(log) >= 1
    /\ log[Len(log)].path = "hit"
    /\ log[Len(log)].ret \in Results
    /\ stats.total_processed >= 1

\* C5: the entry written after a successful recognition is the file keyed by
\* the original bytes (no file keyed by the optimized payload is written), and
\* once an entry for some original bytes is there, every call with those
\* bytes, under any settings, returns it without calling the endpoint.
\* (The uploads of the model are never the re-encoding of another upload.)
C5_KeyedByOriginal ==
    /\ [](\A x \in AllBytes : exists(cache[get_cache_key(x)]) => x \in Uploads)
    /\ [][\A d \in Uploads :
            /\ (CallOn(d) /\ Entry.path = "success")
                 => /\ cache'[get_cache_key(d)] = json_dump(Entry.ret)
                    /\ \A k \in CacheKeys \ {get_cache_key(d)} : cache'[k] = cache[k]
            /\ (CallOn(d) /\ Parses(cache[get_cache_key(d)]))
                 => /\ Entry.sent = NotSent
                    /\ Entry.ret = json_load(cache[get_cache_key(d)])]_vars

C5_Witness ==
    /\ Len(log) = 1
    /\ calls = 2
    /\ log[1].path = "hit"
    /\ log[1].image_data = "a"
    /\ ~exists(cache[get_cache_key("a_jpg")])

\* C7: with use_cache = false the lookup is skipped, so a payload within the
\* size limit is posted to the endpoint even when an entry for the bytes
\* exists, and a successful result is still stored.
C7_UseCacheFalseSkipsLookup ==
    [][\A d \in Uploads :
          (/\ CallOn(d)
           /\ settings.use_cache = FALSE
           /\ check_file_size(optimize_image(d)))
          => /\ Entry.sent = optimize_image(d)
             /\ Entry.path = "success"
                  => cache'[get_cache_key(d)] = json_dump(Entry.ret)]_vars

\* C9: every call that is not served from the cache updates the stats exactly
\* once: total_processed grows by 1 and exactly one of total_success and
\* total_failed grows by 1.
C9_StatsOncePerItem ==
    [][\A d \in Uploads :
          (CallOn(d) /\ Entry.path # "hit")
          => /\ stats'.total_processed = stats.total_processed + 1
             /\ \/ /\ stats'.total_success = stats.total_success + 1
                   /\ stats'.total_failed = stats.total_failed
                \/ /\ stats'.total_success = stats.total_success
                   /\ stats'.total_failed = stats.total_failed + 1]_vars

\* C16: when the endpoint answered 200 and the cache write or the stats write
\* that follows raised, the call still returns the recognized result, not an
\* error record.
C16_TextSurvivesWriteFailure ==
    [][\A d \in Uploads :
          (/\ CallOn(d)
           /\ Entry.status = "200"
           /\ Entry.path = "except")
          => IsResult(Entry.ret)]_vars

\* C19: with optimize = false a call that posts to the endpoint posts the
\* uploaded bytes themselves.
C19_OptimizeOffSendsOriginal ==
    [][\A d \in Uploads :
          (/\ CallOn(d)
           /\ settings.optimize = FALSE
           /\ Entry.sent # NotSent)
          => Entry.sent = d]_vars

\* The endpoint was called and did not answer 200.
RecognitionFailed(e) == e.status \in {"500", "down"}

\* log[j] is the latest call of this batch on bytes d.
LatestOn(j, d) ==
    /\ log[j].image_data = d
    /\ \A k \in (j + 1)..Len(log) : log[k].image_data # d

\* C21: a cache file changes only in a call on bytes with that hash that the
\* endpoint answered with 200; no cache entry ever holds an error record; and
\* when the latest call on some bytes failed at the endpoint, the next call
\* on those bytes posts them to the endpoint again.
C21_CacheOnlyOnSuccess ==
    [][/\ \A k \in CacheKeys :
             /\ Parses(cache'[k]) => IsResult(json_load(cache'[k]))
             /\ cache'[k] # cache[k]
                => \E d \in Uploads :
                      /\ CallOn(d)
                      /\ k = get_cache_key(d)
                      /\ Entry.status = "200"
       /\ \A d \in Uploads :
             (/\ CallOn(d)
              /\ \E j \in 1..Len(log) : LatestOn(j, d) /\ RecognitionFailed(log[j]))
             => /\ Entry.sent = optimize_image(d)
                /\ Entry.path # "hit"]_vars

C21_Witness ==
    /\ Len(log) = 2
    /\ log[1].image_data = log[2].image_data
    /\ log[1].status = "500"
    /\ IsError(results[1])
    /\ log[2].sent = optimize_image(log[2].image_data)
    /\ log[2].status = "200"
    /\ IsResult(results[2])
    /\ cache[get_cache_key(log[2].image_data)] = json_dump(results[2])

----------------------------------------------------------------------------
(* The cache functions applied directly: any bytes, any result, any outcome *)
(* of the write.                                                            *)

CacheStore ==
    /\ \E b \in AllBytes, r \in Results, fault \in Faults :
          LET sv == save_to_cache(cache, b, r, fault)
          IN  /\ cache' = sv.cache
              /\ last' = [op |-> "save_to_cache", image_data |-> b, result |-> r,
                          raised |-> sv.raised,
                          before |-> cache[get_cache_key(b)]]
    /\ UNCHANGED <<sessions, stats, statsFile, now, pc, images, settings, results, log,
                   calls, history, historyFile, imageFiles>>

CacheLookup ==
    /\ \E b \in AllBytes :
          LET g == get_from_cache(cache, b)
          IN  last' = [op |-> "get_from_cache", image_data |-> b,
                       result |-> g.value, raised |-> g.raised,
                       before |-> cache[get_cache_key(b)]]
    /\ UNCHANGED <<sessions, cache, stats, statsFile, now, pc, images, settings, results,
                   log, calls, history, historyFile, imageFiles>>

NextCache == CacheStore \/ CacheLookup

SpecCache == Init /\ [][NextCache]_vars

\* The step is save_to_cache(b, r) and it completed.
Stored(b, r) ==
    /\ last'.op = "save_to_cache"
    /\ last'.image_data = b
    /\ last'.result = r
    /\ ~last'.raised

\* C6: after save_to_cache(b, r) get_from_cache(b) returns r; when an entry
\* for b was there it is replaced and the number of entries does not grow;
\* the entries of all other contents are unchanged.
C6_StoreLookup ==
    [][\A b \in AllBytes, r \in Results :
          Stored(b, r)
          => /\ get_from_cache(cache', b) = [value |-> r, raised |-> FALSE]
             /\ NumEntries(cache') =
                  NumEntries(cache) + (IF exists(cache[get_cache_key(b)]) THEN 0 ELSE 1)
             /\ \A o \in AllBytes \ {b} :
                  cache'[get_cache_key(o)] = cache[get_cache_key(o)]]_vars

C6_Witness ==
    /\ last.op = "save_to_cache"
    /\ ~last.raised
    /\ Parses(last.before)
    /\ json_load(last.before) # last.result
    /\ get_from_cache(cache, last.image_data).value = last.result
    /\ NumEntries(cache) = 2

----------------------------------------------------------------------------
(* The stats functions applied directly from the zeroed snapshot *)

\* No load_stats has replaced the snapshot built by the update_stats calls.
Pure == IF last.op = "none" THEN TRUE ELSE last.pure

RecordStats ==
    /\ calls < MaxOps
    /\ \E success \in BOOLEAN, b \in Uploads, fault \in Faults :
          LET u == update_stats(stats, statsFile, now, success, len(b), fault)
          IN  /\ stats' = u.stats
              /\ statsFile' = u.statsFile
              /\ last' = [op |-> "update_stats", raised |-> u.raised,
                          pure |-> Pure]
    /\ now' = now + 1
    /\ calls' = calls + 1
    /\ UNCHANGED <<sessions, cache, pc, images, settings, results, log, history,
                   historyFile, imageFiles>>

\* The script runs again from the top: load_stats (269).
ReloadStats ==
    /\ stats' = load_stats(stats, statsFile)
    /\ last' = [op |-> "load_stats", raised |-> FALSE,
                pure |-> Pure /\ stats' = stats]
    /\ UNCHANGED <<sessions, cache, statsFile, now, pc, images, settings, results, log,
                   calls, history, historyFile, imageFiles>>

NextStats == RecordStats \/ ReloadStats

SpecStats == Init /\ [][NextStats]_vars

\* C8: from the zeroed snapshot, after M update_stats calls (no reload having
\* replaced the snapshot in between) total_processed = M and
\* total_success + total_failed = M; and in every state
\* total_processed = total_success + total_failed.
C8_StatsCount ==
    /\ stats.total_processed = stats.total_success + stats.total_failed
    /\ (last.op # "none" /\ last.pure) =>
          /\ stats.total_processed = calls
          /\ stats.total_success + stats.total_failed = calls

C8_Witness ==
    /\ last.op = "update_stats"
    /\ last.pure
    /\ last.raised
    /\ calls = 3
    /\ stats.total_success = 1
    /\ stats.total_failed = 2

\* C20: no counter of the stats in memory decreases from one state to the
\* next, whether the step is an update_stats call (its write of stats.json
\* failing or not) or a load_stats.
C20_StatsNeverDecrease ==
    [][/\ stats'.total_processed >= stats.total_processed
       /\ stats'.total_success >= stats.total_success
       /\ stats'.total_failed >= stats.total_failed
       /\ stats'.total_size >= stats.total_size]_vars

----------------------------------------------------------------------------
(* The history store.  Every script run starts with load_history and         *)
(* load_stats (268-269); a run then appends the accepted results of a batch *)
(* (541-546), deletes one displayed item (578-580), clears the history      *)
(* (561-563), or does nothing more.                                         *)

Texts == {"t1", "edited"}
HistoryUploads == {"a", "b"}

\* No history operation has raised so far: no file-system error has occurred.
Clean == IF last.op = "none" THEN TRUE ELSE last.clean

\* A run that only redraws the page.
Rerun ==
    /\ pc = "idle"
    /\ history' = load_history(history, historyFile)
    /\ stats' = load_stats(stats, statsFile)
    /\ last' = [op |-> "rerun", clean |-> Clean]
    /\ UNCHANGED <<sessions, cache, statsFile, now, pc, images, settings, results, log,
                   calls, historyFile, imageFiles>>

\* A run in which the batch button was pressed: results are about to be shown.
RunRecognize ==
    /\ pc = "idle"
    /\ calls < MaxOps
    /\ history' = load_history(history, historyFile)
    /\ stats' = load_stats(stats, statsFile)
    /\ last' = [op |-> "recognize", clean |-> Clean]
    /\ pc' = "saving"
    /\ UNCHANGED <<sessions, cache, statsFile, now, images, settings, results, log, calls,
                   historyFile, imageFiles>>

\* One result of the batch is shown and saved (541-546).
SaveItem ==
    /\ pc = "saving"
    /\ calls < MaxOps
    /\ \E image_data \in HistoryUploads, text \in Texts,
          imageFault \in Faults, historyFault \in Faults :
          /\ imageFault # "ok" => historyFault = "ok"
          /\ LET r == save_to_history(history, historyFile, imageFiles, now,
                                      image_data, text, "ru", "0.10",
                                      imageFault, historyFault)
             IN  /\ history' = r.history
                 /\ historyFile' = r.historyFile
                 /\ imageFiles' = r.imageFiles
                 /\ last' = [op |-> "save_to_history", raised |-> r.raised,
                             before |-> history, image_data |-> image_data,
                             text |-> text, timestamp |-> now,
                             clean |-> Clean /\ ~r.raised]
    /\ now' = now + 1
    /\ calls' = calls + 1
    /\ UNCHANGED <<sessions, cache, stats, statsFile, pc, images, settings, results, log>>

EndRun ==
    /\ pc = "saving"
    /\ pc' = "idle"
    /\ UNCHANGED <<sessions, cache, stats, statsFile, now, images, settings, results, log,
                   calls, history, historyFile, imageFiles, last>>

\* A run in which the delete button of displayed item `index` was pressed.
\* The function is also applied just outside the displayed range.
RunDelete ==
    /\ pc = "idle"
    /\ calls < MaxOps
    /\ LET h0 == load_history(history, historyFile)
       IN  \E index \in -1..Len(h0), unlinkFault \in UnlinkFaults,
              historyFault \in Faults :
              /\ unlinkFault # "ok" => historyFault = "ok"
              /\ LET r == delete_history_item(h0, historyFile, imageFiles, index,
                                              unlinkFault, historyFault)
                 IN  /\ history' = r.history
                     /\ historyFile' = r.historyFile
                     /\ imageFiles' = r.imageFiles
                     /\ last' = [op |-> "delete_history_item", raised |-> r.raised,
                                 before |-> h0, index |-> index,
                                 clean |-> Clean /\ ~r.raised]
    /\ stats' = load_stats(stats, statsFile)
    /\ calls' = calls + 1
    /\ UNCHANGED <<sessions, cache, statsFile, now, pc, images, settings, results, log>>

\* A run in which the clear button was pressed (shown when the list is not
\* empty).
RunClear ==
    /\ pc = "idle"
    /\ calls < MaxOps
    /\ LET h0 == load_history(history, historyFile)
       IN  /\ h0 # <<>>
           /\ \E failAt \in 0..Len(h0), unlinkFault \in UnlinkFaults :
                 /\ failAt # 0 => unlinkFault = "ok"
                 /\ LET r == clear_history(h0, historyFile, imageFiles, failAt,
                                           unlinkFault)
                    IN  /\ history' = r.history
                        /\ historyFile' = r.historyFile
                        /\ imageFiles' = r.imageFiles
                        /\ last' = [op |-> "clear_history", raised |-> r.raised,
                                    before |-> h0,
                                    clean |-> Clean /\ ~r.raised]
    /\ stats' = load_stats(stats, statsFile)
    /\ calls' = calls + 1
    /\ UNCHANGED <<sessions, cache, statsFile, now, pc, images, settings, results, log>>

\* A new session (or the process started again): the session state is
\* created empty (40-59) and the files are loaded (268-269).
Restart ==
    /\ pc = "idle"
    /\ history' = load_history(<<>>, historyFile)
    /\ stats' = load_stats(ZeroStats, statsFile)
    /\ last' = [op |-> "restart", before |-> history, clean |-> Clean]
    /\ UNCHANGED <<sessions, cache, statsFile, now, pc, images, settings, results, log,
                   calls, historyFile, imageFiles>>

NextHistory ==
    Rerun \/ RunRecognize \/ SaveItem \/ EndRun \/ RunDelete \/ RunClear \/ Restart

SpecHistory == Init /\ [][NextHistory]_vars

\* C10: with N items shown newest first, delete_history_item(i), 0 <= i < N,
\* when it completes, has removed the item stored at position N-1-i (0-based,
\* oldest first) and nothing else, the other items keep their order, the image
\* file of the removed item is gone and history.json holds the remaining list.
C10_DeleteDisplayed ==
    (/\ last.op = "delete_history_item"
     /\ 0 <= last.index
     /\ last.index < Len(last.before)
     /\ ~last.raised)
    => LET N == Len(last.before)
           removed == last.before[(N - 1 - last.index) + 1]
       IN  /\ Len(history) = N - 1
           /\ \A j \in 1..(N - 1) :
                 history[j] = IF j < N - last.index THEN last.before[j]
                                                    ELSE last.before[j + 1]
           /\ ~exists(imageFiles[removed.image_path])
           /\ historyFile = json_dump(history)

C10_Witness ==
    /\ last.op = "delete_history_item"
    /\ ~last.raised
    /\ Len(last.before) = 3
    /\ last.index = 0
    /\ last.before[1] # last.before[3]
    /\ last.before[1].image_path # last.before[3].image_path
    /\ history = <<last.before[1], last.before[2]>>

\* The step is a call of delete_history_item.
DeleteStep == calls' = calls + 1 /\ last'.op = "delete_history_item"

\* C11: delete_history_item(index) with index < 0 or index >= N changes
\* nothing: the list in memory, history.json and every image file are as
\* before, and nothing is raised.
C11_DeleteOutOfRange ==
    [][(/\ DeleteStep
        /\ (last'.index < 0 \/ last'.index >= Len(last'.before)))
       => /\ history' = last'.before
          /\ historyFile' = historyFile
          /\ imageFiles' = imageFiles
          /\ ~last'.raised]_vars

C11_Witness ==
    /\ last.op = "delete_history_item"
    /\ Len(last.before) = 2
    /\ last.index = 2
    /\ history = last.before
    /\ historyFile = json_dump(history)

\* C12: after a clear_history that completes, the list in memory is empty, no
\* image file of an item that was in the list is left, and load_history (in
\* this session or in a new one) yields the empty list.
C12_ClearHistory ==
    (last.op = "clear_history" /\ ~last.raised)
    => /\ history = <<>>
       /\ \A j \in 1..Len(last.before) :
             ~exists(imageFiles[last.before[j].image_path])
       /\ load_history(history, historyFile) = <<>>
       /\ load_history(<<>>, historyFile) = <<>>

C12_Witness ==
    /\ last.op = "clear_history"
    /\ ~last.raised
    /\ Len(last.before) = 2
    /\ last.before[1].image_path # last.before[2].image_path
    /\ history = <<>>
    /\ ~exists(historyFile)

\* Every operation so far was a save_to_history that appended its item.
OnlySaves == Len(history) = calls

\* C13: after successful save_to_history calls only, a restart (empty list,
\* then load_history) yields the appended items in append order, the newest
\* with the text, language and processing time it was saved with, and the
\* image file of every item holds the bytes that were saved for it.
C13_HistoryRoundTrip ==
    (/\ last.op = "save_to_history"
     /\ ~last.raised
     /\ OnlySaves)
    => LET loaded == load_history(<<>>, historyFile)
       IN  /\ loaded = history
           /\ loaded = Append(last.before,
                  [timestamp |-> last.timestamp, text |-> last.text,
                   language |-> "ru", processing_time |-> "0.10",
                   image_path |-> image_path(last.image_data)])
           /\ \A j \in 1..Len(loaded) :
                 \E b \in HistoryUploads :
                    /\ loaded[j].image_path = image_path(b)
                    /\ imageFiles[loaded[j].image_path]
                         = [state |-> "complete", bytes |-> b]

C13_Witness ==
    /\ last.op = "save_to_history"
    /\ ~last.raised
    /\ OnlySaves
    /\ Len(history) = 3
    /\ history[1].image_path = history[3].image_path
    /\ history[1].image_path # history[2].image_path
    /\ history[2].text = "edited"
    /\ load_history(<<>>, historyFile) = history

\* C17: a read of history.json, of stats.json or of a cache entry never finds
\* an empty or partly written file, whatever happened to the write before it.
C17_NoPartialFile ==
    /\ exists(historyFile) => Parses(historyFile)
    /\ exists(statsFile) => Parses(statsFile)
    /\ \A k \in CacheKeys : exists(cache[k]) => Parses(cache[k])

\* C22: as long as no file-system error has occurred, whatever
\* save_to_history, delete_history_item and clear_history calls were made,
\* every item in the history names an image file that exists.
C22_ImagesExist ==
    Clean => \A j \in 1..Len(history) : exists(imageFiles[history[j].image_path])

-----------------------------------------------------------------------------
(* load_history on whatever history.json holds *)

MaxFileItems == 2

\* The records save_to_history writes (181-188).
HistoryItems ==
    [timestamp : {1, 2}, text : Texts, language : {"ru"}, processing_time : {"0.10"},
     image_path : {image_path(b) : b \in HistoryUploads}]

HistoryLists == UNION {[1..k -> HistoryItems] : k \in 0..MaxFileItems}

\* JSON that parses but is not a list of history records: a list whose
\* element is some other object, and one whose element lacks fields.
NotHistoryLists == {<<[error |-> "x"]>>, <<[text |-> "t1"]>>}

\* What the session may find at the path of history.json.
FileContents ==
    {Absent, Truncated} \cup {json_dump(v) : v \in HistoryLists \cup NotHistoryLists}

Corrupt(hf) ==
    \/ hf = Truncated
    \/ hf.state = "complete" /\ hf.json \in NotHistoryLists

InitLoad ==
    /\ cache = [k \in CacheKeys |-> Absent]
    /\ stats = ZeroStats
    /\ statsFile = Absent
    /\ now = 1
    /\ pc = "idle"
    /\ images = <<>>
    /\ settings = [optimize |-> TRUE, use_cache |-> TRUE]
    /\ results = <<>>
    /\ log = <<>>
    /\ calls = 0
    /\ history = <<>>
    /\ historyFile \in FileContents
    /\ imageFiles = [p \in ImagePaths |-> Absent]
    /\ last = NoLast
    /\ sessions = [s \in Sessions |-> NewSession]

NextLoad == Restart \/ Rerun

SpecLoad == InitLoad /\ [][NextLoad]_vars

\* C14: after the load_history of a session start, when history.json is
\* absent or corrupt (it does not parse, or it parses to something that is
\* not a list of history records), the history in memory is the empty list.
C14_LoadCorruptIsEmpty ==
    (/\ last.op = "restart"
     /\ (~exists(historyFile) \/ Corrupt(historyFile)))
    => history = <<>>

-----------------------------------------------------------------------------
(* server.py: the /recognize endpoint *)

\* The keys of SUPPORTED_LANGUAGES; the display names play no part here.
SUPPORTED_LANGUAGES ==
    {"en", "ru", "de", "fr", "es", "it", "pt", "nl", "pl", "uk", "ja", "ko", "zh", "ar"}

OCR_SPACE_LANGUAGES ==
    ("en" :> "eng") @@ ("ru" :> "rus") @@ ("de" :> "ger") @@ ("fr" :> "fre") @@
    ("es" :> "spa") @@ ("it" :> "ita") @@ ("pt" :> "por") @@ ("nl" :> "dut") @@
    ("pl" :> "pol") @@ ("uk" :> "ukr") @@ ("ja" :> "jpn") @@ ("ko" :> "kor") @@
    ("zh" :> "chi_sim") @@ ("ar" :> "ara")

\* dict.get(key, default)
Get(d, key, default) == IF key \in DOMAIN d THEN d[key] ELSE default

\* Codes a client may send that are not in the table.
UnknownCodes == {"xx", "eng", ""}

\* The leading bytes of the uploaded file.
Magics == {"FFD8FF", "%PDF", "other"}

\* What the external service does with a post.
Outcomes == {"ok", "status_not_200", "errored_on_processing", "post_raises"}

\* request.files has an image or not; request.form has a language or not.
Requests ==
    [has_image : BOOLEAN, has_language : BOOLEAN,
     language : SUPPORTED_LANGUAGES \cup UnknownCodes, image_data : Magics]

\* One post to OCR.space is attempted on every path; anything but a clean
\* answer is raised again to the caller.
ocr_space_recognize(image_data, language, outcome) ==
    LET file_type == CASE image_data = "FFD8FF" -> "jpg"
                       [] image_data = "%PDF" -> "pdf"
                       [] OTHER -> "png"
        ocr_space_lang == Get(OCR_SPACE_LANGUAGES, language, "eng")
        payload == [language |-> ocr_space_lang, filetype |-> file_type]
    IN  [posted |-> <<payload>>,
         raised |-> outcome # "ok",
         text |-> IF outcome = "ok" THEN "t1" ELSE ""]

\* Variant: the language is passed on without being looked up in the table.
recognize_text_unchecked(request, outcome) ==
    IF ~request.has_image
    THEN [code |-> 400, error |-> "no_image", posted |-> <<>>]
    ELSE LET lang == IF request.has_language THEN request.language ELSE "en"
             r == ocr_space_recognize(request.image_data, lang, outcome)
         IN  IF r.raised
             THEN [code |-> 500, error |-> "exception", posted |-> r.posted]
             ELSE [code |-> 200, text |-> r.text, detected_language |-> lang,
                   posted |-> r.posted]

recognize_text(request, outcome) ==
    IF ~request.has_image
    THEN [code |-> 400, error |-> "no_image", posted |-> <<>>]
    ELSE LET lang == IF request.has_language THEN request.language ELSE "en"
         IN  IF lang \notin SUPPORTED_LANGUAGES
             THEN [code |-> 400, error |-> "unsupported_language", posted |-> <<>>]
             ELSE LET r == ocr_space_recognize(request.image_data, lang, outcome)
                  IN  IF r.raised
                      THEN [code |-> 500, error |-> "exception", posted |-> r.posted]
                      ELSE [code |-> 200, text |-> r.text,
                            detected_language |-> lang, posted |-> r.posted]

\* POST /recognize
PostRecognize ==
    \E request \in Requests, outcome \in Outcomes :
        /\ last' = [op |-> "recognize_text", request |-> request,
                    response |-> recognize_text(request, outcome)]
        /\ UNCHANGED <<sessions, cache, stats, statsFile, now, pc, images, settings,
                       results, log, calls, history, historyFile, imageFiles>>

\* GET /languages
GetLanguages ==
    /\ last' = [op |-> "get_languages", response |-> SUPPORTED_LANGUAGES]
    /\ UNCHANGED <<sessions, cache, stats, statsFile, now, pc, images, settings,
                   results, log, calls, history, historyFile, imageFiles>>

NextServer == PostRecognize \/ GetLanguages

SpecServer == Init /\ [][NextServer]_vars

\* The request names a language and the table does not have it.
UnknownLanguage(request) ==
    request.has_language /\ request.language \notin SUPPORTED_LANGUAGES

\* C15: a request whose language code is not in SUPPORTED_LANGUAGES posts
\* nothing to the external service and, when it carries an image, is answered
\* 400 with the unsupported-language error; whatever is posted carries the
\* OCR.space code of the requested language, never a stand-in.
C15_UnknownLanguageRejected ==
    last.op = "recognize_text"
    => /\ UnknownLanguage(last.request)
          => /\ last.response.posted = <<>>
             /\ last.request.has_image
                => /\ last.response.code = 400
                   /\ last.response.error = "unsupported_language"
       /\ \A j \in 1..Len(last.response.posted) :
             LET lang == IF last.request.has_language
                         THEN last.request.language ELSE "en"
             IN  /\ lang \in SUPPORTED_LANGUAGES
                 /\ last.response.posted[j].language = OCR_SPACE_LANGUAGES[lang]

C15_Witness ==
    /\ last.op = "recognize_text"
    /\ last.request.has_image
    /\ last.request.has_language
    /\ last.request.language = "xx"
    /\ last.response.code = 400
    /\ last.response.error = "unsupported_language"
    /\ last.response.posted = <<>>

-----------------------------------------------------------------------------
(* Two sessions on the same stats.json and history.json *)

\* The script of session s runs from the top: load_history, load_stats.
SessionRun(s) ==
    /\ sessions[s].pc = "idle"
    /\ sessions' = [sessions EXCEPT
                      ![s].history = load_history(@, historyFile),
                      ![s].stats = load_stats(@, statsFile),
                      ![s].pc = "running"]
    /\ UNCHANGED <<cache, stats, statsFile, now, pc, images, settings, results,
                   log, calls, history, historyFile, imageFiles, last>>

\* One update_stats call of the batch that session s is processing.
SessionUpdateStats(s) ==
    /\ sessions[s].pc = "running"
    /\ calls + Len(log) < MaxOps
    /\ \E success \in BOOLEAN :
          LET u == update_stats(sessions[s].stats, statsFile, now, success,
                                len("a"), "ok")
          IN  /\ sessions' = [sessions EXCEPT ![s].stats = u.stats]
              /\ statsFile' = u.statsFile
    /\ now' = now + 1
    /\ calls' = calls + 1
    /\ UNCHANGED <<cache, stats, pc, images, settings, results, log, history,
                   historyFile, imageFiles, last>>

\* Session s saves a recognized text; log keeps every item appended.
SessionSaveHistory(s) ==
    /\ sessions[s].pc = "running"
    /\ calls + Len(log) < MaxOps
    /\ \E image_data \in HistoryUploads :
          LET r == save_to_history(sessions[s].history, historyFile, imageFiles,
                                   now, image_data, "t1", "ru", "0.10", "ok", "ok")
          IN  /\ sessions' = [sessions EXCEPT ![s].history = r.history]
              /\ historyFile' = r.historyFile
              /\ imageFiles' = r.imageFiles
              /\ log' = Append(log, r.history[Len(r.history)])
    /\ now' = now + 1
    /\ UNCHANGED <<cache, stats, statsFile, pc, images, settings, results, calls,
                   history, last>>

\* The script run of session s ends.
SessionEnd(s) ==
    /\ sessions[s].pc = "running"
    /\ sessions' = [sessions EXCEPT ![s].pc = "idle"]
    /\ UNCHANGED <<cache, stats, statsFile, now, pc, images, settings, results,
                   log, calls, history, historyFile, imageFiles, last>>

NextSessions ==
    \E s \in Sessions :
        SessionRun(s) \/ SessionUpdateStats(s) \/ SessionSaveHistory(s) \/ SessionEnd(s)

SpecSessions == Init /\ [][NextSessions]_vars

PersistedTotal ==
    IF Parses(statsFile) THEN json_load(statsFile).total_processed ELSE 0

PersistedHistory == IF Parses(historyFile) THEN json_load(historyFile) ELSE <<>>

\* C18: when both sessions have finished, stats.json holds a total_processed
\* equal to the number of update_stats calls made by the two sessions (the
\* initial value being 0), and history.json holds every item either session
\* appended.
C18_NoLostUpdate ==
    (\A s \in Sessions : sessions[s].pc = "idle")
    => /\ PersistedTotal = calls
       /\ \A j \in 1..Len(log) :
             \E k \in 1..Len(PersistedHistory) : PersistedHistory[k] = log[j]

====
